---- MODULE Spec2Model ----
(***************************************************************************)
(* Model of the astrofriend front end: the transcript merge of the chat    *)
(* page (deduplicateMessages, handleSend and the session handlers) and the *)
(* relationship store (useRelationshipStore) with its expiry timers.       *)
(*                                                                         *)
(* Strings are sequences of one-character strings, so that the template    *)
(* literal that builds a message signature is a real concatenation.        *)
(***************************************************************************)
EXTENDS Integers, Sequences, FiniteSets, TLC

\* ------------------------------------------------------------------ bounds
MaxHistory == 2      \* longest server history fed to the merge
MaxBuffer == 2       \* longest optimistic buffer fed to the merge
MaxClock == 2        \* readings of the browser clock

\* ----------------------------------------------------------------- strings
Colon == <<":">>
EmptyString == <<>>
RoleUser == <<"u", "s", "e", "r">>
RoleAssistant == <<"a", "s", "s", "i", "s", "t", "a", "n", "t">>
Roles == {RoleUser, RoleAssistant}

\* message texts a user can type or a server can return
Contents == {<<"a">>, <<"a", ":", "0">>}

Digit(n) == IF n = 0 THEN "0" ELSE IF n = 1 THEN "1" ELSE IF n = 2 THEN "2" ELSE IF n = 3 THEN "3" ELSE "4"

\* new Date().toISOString(): a fixed-width rendering that contains ':'
ToISOString(t) == <<"0", ":", Digit(t)>>

\* timestamps of the type string: the ISO renderings and one shorter format
Timestamps == {ToISOString(t) : t \in 1..MaxClock} \cup {<<"1">>}

\* ChatMessage: timestamp is an optional field
ChatMessage == [role : Roles, content : Contents] \cup [role : Roles, content : Contents, timestamp : Timestamps]

HasTimestamp(msg) == "timestamp" \in DOMAIN msg

\* msg.timestamp || ''
TimestampOrEmpty(msg) == IF HasTimestamp(msg) /\ msg.timestamp # EmptyString THEN msg.timestamp ELSE EmptyString

\* the identity tuple (role, content, timestamp-or-empty)
IdentityTuple(msg) == <<msg.role, msg.content, TimestampOrEmpty(msg)>>

\* `${msg.role}:${msg.content}:${msg.timestamp || ''}`
Signature(msg) == msg.role \o Colon \o msg.content \o Colon \o TimestampOrEmpty(msg)

SeqsUpTo(S, n) == UNION {[1..k -> S] : k \in 0..n}

\* the strings of history messages' signatures
HistorySignatures(sessionHistory) == {Signature(sessionHistory[i]) : i \in DOMAIN sessionHistory}

\* optimisticMessages.filter(msg => !historySignatures.has(signature))
RECURSIVE FilterUnique(_, _)
FilterUnique(optimisticMessages, historySignatures) ==
    IF optimisticMessages = <<>> THEN <<>>
    ELSE LET msg == Head(optimisticMessages)
             rest == FilterUnique(Tail(optimisticMessages), historySignatures)
         IN IF Signature(msg) \notin historySignatures THEN <<msg>> \o rest ELSE rest

\* faulty variant: the buffer is appended without the filter
deduplicateMessagesNoFilter(sessionHistory, optimisticMessages) ==
    sessionHistory \o optimisticMessages

\* faulty variant: only the filtered buffer is returned, the history is left out
deduplicateMessagesDropHistory(sessionHistory, optimisticMessages) ==
    FilterUnique(optimisticMessages, HistorySignatures(sessionHistory))

deduplicateMessages(sessionHistory, optimisticMessages) ==
    sessionHistory \o FilterUnique(optimisticMessages, HistorySignatures(sessionHistory))

\* --------------------------------------------------------------- variables
\* inputs and outputs of the merge taken as a pure function
VARIABLES inHistory, inOptimistic, outMessages, outAgain, mergePc

\* the relationship store: its two maps, and the browser's table of pending timers
VARIABLES characters, scoreChangeTimeouts, timers, nextTimeoutId

\* observers of the store, kept for one watched character: the last call made
\* for it, the time elapsed since that call, the number of its timer callbacks
\* that ran since that call and the id of the last timer that ran for it;
\* callParity flips with every call made for it, lastRead is what a read of
\* it returned when the step just taken was that read
VARIABLES watched, lastCall, elapsed, firesSince, lastFired, callParity, lastRead

\* the chat page: the input text, the optimistic buffer, the selected session,
\* the typing indicator, the mutation's pending flag and request in flight,
\* the cached result of the sessions query, the browser clock and the next
\* object identity handed to a message created by the page
VARIABLES message, localMessages, currentSessionId, isTyping, isPending, request, sessions, clock, nextRef

\* the server's sessions of the character
VARIABLES serverSessions

\* observers of the chat page: what the last send did, the buffer and the
\* transcript as they were when it started, and whether the session was
\* switched or the sessions were refetched since
VARIABLES lastSend, bufferBeforeSend, displayBeforeSend, switched, refetched

mergeVars == <<inHistory, inOptimistic, outMessages, outAgain, mergePc>>

\* the store without timeout tracking, run side by side with the store on the
\* same calls when sideBySide is set: its map and its pending timers
VARIABLES charactersNoTracking, timersNoTracking, sideBySide

variantVars == <<charactersNoTracking, timersNoTracking, sideBySide>>

storeVars == <<characters, scoreChangeTimeouts, timers, nextTimeoutId, variantVars>>

observerVars == <<watched, lastCall, elapsed, firesSince, lastFired, callParity, lastRead>>

chatVars == <<message, localMessages, currentSessionId, isTyping, isPending, request, sessions, clock, nextRef>>

chatObserverVars == <<lastSend, bufferBeforeSend, displayBeforeSend, switched, refetched>>

\* the query keys invalidated and not refetched since, and the handler of
\* the page that the step just taken ran: "sent" or "ignored" for handleSend,
\* "new" for handleNewChat, the session's id for handleSelectSession, "none"
\* when it ran none of them
VARIABLES invalidated, lastEvent

pageVars == <<chatVars, serverSessions, chatObserverVars, invalidated, lastEvent>>

\* the auth store (user, isAuthenticated, isLoading, error), the state of
\* AuthInitializer (isInitializing), the auth request in flight and the path
\* the router is at
VARIABLES user, isAuthenticated, isLoading, error, isInitializing, authRequest, location

\* observers of the auth store: a login succeeded and no logout followed
\* (loggedIn), the page was reloaded since that login (reloaded), the outcome
\* of the last checkAuth (lastCheck)
VARIABLES loggedIn, reloaded, lastCheck

authStoreVars == <<user, isAuthenticated, isLoading, error>>

authVars == <<authStoreVars, isInitializing, authRequest, location, loggedIn, reloaded, lastCheck>>

vars == <<mergeVars, storeVars, observerVars, pageVars, authVars>>

\* ------------------------------------------------- the relationship store
MaxTimeouts == 3     \* timers the model lets setTimeout create

ExpiryWindow == 3    \* setTimeout(..., 3000), in seconds

CharacterIds == {"c1", "c2"}

\* (score, status, scoreChange) triples a chat response can carry
ResponseValues == {<<80, "Smitten", 5>>, <<70, "Curious", -3>>}

\* (score, status) pairs a loaded character can carry
CharacterValues == {<<70, "Curious">>, <<80, "Smitten">>, <<80, "Curious">>}

DEFAULT_RELATIONSHIP == [score |-> 50, status |-> "Neutral", lastScoreChange |-> 0]

RelationshipData(score, status, scoreChange) ==
    [score |-> score, status |-> status, lastScoreChange |-> scoreChange]

\* faulty variant: the spread of the old map is missing
PutAlone(map, key, value) == [k \in {key} |-> value]

\* { ...map, [key]: value }
Put(map, key, value) == [k \in DOMAIN map \cup {key} |-> IF k = key THEN value ELSE map[k]]

\* delete map[key]
Omit(map, key) == [k \in DOMAIN map \ {key} |-> map[k]]

EmptyMap == [k \in {} |-> 0]

\* clearTimeout(id): the pending timer with that id, if any, is dropped
clearTimeout(pending, id) == {t \in pending : t.id # id}

\* setTimeout(callback for characterId, 3000) returning timeoutId
setTimeout(pending, timeoutId, characterId) ==
    pending \cup {[id |-> timeoutId, characterId |-> characterId, remaining |-> ExpiryWindow]}

LiveTimersOf(characterId) == {t \in timers : t.characterId = characterId}

\* faulty variant: the existing timeout is not cancelled (the store without timeout tracking)
ClearExistingTimeoutSkipped(pending, timeouts, characterId) == pending

\* const existing = get().scoreChangeTimeouts[id]; if (existing) clearTimeout(existing)
ClearExistingTimeout(pending, timeouts, characterId) ==
    IF characterId \in DOMAIN timeouts /\ timeouts[characterId] # 0
    THEN clearTimeout(pending, timeouts[characterId])
    ELSE pending

\* the value null where a record is expected
NullData == [null |-> TRUE]

\* faulty variant: the hook gives back null for a character without a record
readOrNull(characterId) ==
    IF characterId \in DOMAIN characters THEN characters[characterId] ELSE NullData

\* useCharacterRelationship: state.characters[id] ?? DEFAULT_RELATIONSHIP
read(characterId) ==
    IF characterId \in DOMAIN characters THEN characters[characterId] ELSE DEFAULT_RELATIONSHIP

\* getCharacterRelationship: get().characters[characterId] || null
getCharacterRelationship(characterId) ==
    IF characterId \in DOMAIN characters THEN characters[characterId] ELSE NullData

\* ---- the store without timeout tracking: the effect of each operation on
\* its map and on its pending timers
updateFromResponseNoTracking(characterId, score, status, scoreChange) ==
    /\ charactersNoTracking' = Put(charactersNoTracking, characterId,
                                   RelationshipData(score, status, scoreChange))
    /\ timersNoTracking' = setTimeout(timersNoTracking, nextTimeoutId, characterId)

initFromCharacterNoTracking(characterId, score, status) ==
    /\ charactersNoTracking' =
           IF characterId \notin DOMAIN charactersNoTracking
              \/ charactersNoTracking[characterId].score # score
              \/ charactersNoTracking[characterId].status # status
           THEN Put(charactersNoTracking, characterId, RelationshipData(score, status, 0))
           ELSE charactersNoTracking
    /\ UNCHANGED timersNoTracking

\* clearScoreChange, run on the timer table `pending`
clearScoreChangeNoTracking(pending, characterId) ==
    /\ charactersNoTracking' =
           IF characterId \notin DOMAIN charactersNoTracking THEN charactersNoTracking
           ELSE Put(charactersNoTracking, characterId,
                    [charactersNoTracking[characterId] EXCEPT !.lastScoreChange = 0])
    /\ timersNoTracking' = pending

resetCharacterNoTracking(characterId) ==
    /\ charactersNoTracking' = Omit(charactersNoTracking, characterId)
    /\ UNCHANGED timersNoTracking

\* the page reload of that store: the same partialize, its timers gone
ReloadNoTracking ==
    /\ charactersNoTracking' =
           [id \in DOMAIN charactersNoTracking |->
               [charactersNoTracking[id] EXCEPT !.lastScoreChange = 0]]
    /\ timersNoTracking' = {}

\* a second passes for its timers as well
TickNoTracking ==
    /\ timersNoTracking' = {[t EXCEPT !.remaining = @ - 1] : t \in timersNoTracking}
    /\ UNCHANGED charactersNoTracking

\* the same call reaches the store without timeout tracking when the two are
\* run side by side
SideBySide(effect) ==
    /\ IF sideBySide THEN effect ELSE UNCHANGED <<charactersNoTracking, timersNoTracking>>
    /\ UNCHANGED sideBySide

NoCall == [op |-> "none"]

Observe(characterId, call) ==
    /\ lastCall' = IF characterId = watched THEN call ELSE lastCall
    /\ elapsed' = IF characterId = watched THEN 0 ELSE elapsed
    /\ firesSince' = IF characterId = watched THEN 0 ELSE firesSince
    /\ callParity' = IF characterId = watched THEN 1 - callParity ELSE callParity
    /\ lastRead' = NoCall
    /\ UNCHANGED <<watched, lastFired>>

updateFromResponse(characterId, score, status, scoreChange) ==
    /\ nextTimeoutId <= MaxTimeouts
    /\ LET cancelled == ClearExistingTimeout(timers, scoreChangeTimeouts, characterId)
           timeoutId == nextTimeoutId
       IN /\ characters' = Put(characters, characterId, RelationshipData(score, status, scoreChange))
          /\ timers' = setTimeout(cancelled, timeoutId, characterId)
          /\ scoreChangeTimeouts' = Put(scoreChangeTimeouts, characterId, timeoutId)
          /\ nextTimeoutId' = nextTimeoutId + 1
          /\ Observe(characterId, [op |-> "update", score |-> score, status |-> status,
                                   scoreChange |-> scoreChange, timeoutId |-> timeoutId,
                                   superseding |-> LiveTimersOf(characterId) # {}])
    /\ SideBySide(updateFromResponseNoTracking(characterId, score, status, scoreChange))
    /\ UNCHANGED <<mergeVars, pageVars, authVars>>

\* faulty variant: an existing record is never overwritten by the loaded values
NeedsInitOnlyWhenMissing(chars, characterId, score, status) ==
    characterId \notin DOMAIN chars

\* !current || current.score !== score || current.status !== status
NeedsInit(chars, characterId, score, status) ==
    \/ characterId \notin DOMAIN chars
    \/ chars[characterId].score # score
    \/ chars[characterId].status # status

\* faulty variant: the record written shows the difference to the stored score
InitDataWithDifference(chars, characterId, score, status) ==
    RelationshipData(score, status,
                     IF characterId \in DOMAIN chars THEN score - chars[characterId].score ELSE 0)

\* { score, status, lastScoreChange: 0 }
InitData(chars, characterId, score, status) == RelationshipData(score, status, 0)

initFromCharacter(characterId, score, status) ==
    /\ characters' = IF NeedsInit(characters, characterId, score, status)
                     THEN Put(characters, characterId,
                              InitData(characters, characterId, score, status))
                     ELSE characters
    /\ Observe(characterId, [op |-> "init", score |-> score, status |-> status])
    /\ SideBySide(initFromCharacterNoTracking(characterId, score, status))
    /\ UNCHANGED <<scoreChangeTimeouts, timers, nextTimeoutId>>
    /\ UNCHANGED <<mergeVars, pageVars, authVars>>

\* faulty variant: the timeout reference is kept when the score change is cleared
RemainingTimeoutsKept(timeouts, characterId) == timeouts

\* const { [characterId]: _, ...remainingTimeouts } = state.scoreChangeTimeouts
RemainingTimeouts(timeouts, characterId) == Omit(timeouts, characterId)

\* faulty variant: the guard `if (!character) return state` is missing
HasCharacterAlways(chars, characterId) == TRUE

\* const character = state.characters[characterId]; if (!character) return state
HasCharacter(chars, characterId) == characterId \in DOMAIN chars

\* faulty variant: the score change is stepped towards 0 instead of set to 0
ClearedDataDecayed(chars, characterId) ==
    IF characterId \in DOMAIN chars
    THEN [chars[characterId] EXCEPT !.lastScoreChange = IF @ > 0 THEN @ - 1 ELSE IF @ < 0 THEN @ + 1 ELSE 0]
    ELSE [lastScoreChange |-> 0]

\* { ...character, lastScoreChange: 0 }; the spread of undefined adds nothing
ClearedData(chars, characterId) ==
    IF characterId \in DOMAIN chars
    THEN [chars[characterId] EXCEPT !.lastScoreChange = 0]
    ELSE [lastScoreChange |-> 0]

\* the state clearScoreChange leaves, given the timer table, the two maps and the id
ClearScoreChangeState(pending, chars, timeouts, characterId) ==
    IF HasCharacter(chars, characterId)
    THEN [timers |-> ClearExistingTimeout(pending, timeouts, characterId),
          characters |-> Put(chars, characterId, ClearedData(chars, characterId)),
          scoreChangeTimeouts |-> RemainingTimeouts(timeouts, characterId)]
    ELSE [timers |-> ClearExistingTimeout(pending, timeouts, characterId),
          characters |-> chars,
          scoreChangeTimeouts |-> timeouts]

\* the body of clearScoreChange, run on the timer table `pending`
ClearScoreChangeBody(pending, characterId) ==
    /\ LET after == ClearScoreChangeState(pending, characters, scoreChangeTimeouts, characterId)
       IN /\ timers' = after.timers
          /\ characters' = after.characters
          /\ scoreChangeTimeouts' = after.scoreChangeTimeouts
    /\ UNCHANGED nextTimeoutId

clearScoreChange(characterId) ==
    /\ ClearScoreChangeBody(timers, characterId)
    /\ Observe(characterId, [op |-> "clear",
                             cancelling |-> LiveTimersOf(characterId) # {},
                             again |-> characterId = watched /\ lastCall.op = "clear"])
    /\ SideBySide(clearScoreChangeNoTracking(timersNoTracking, characterId))
    /\ UNCHANGED <<mergeVars, pageVars, authVars>>

resetCharacter(characterId) ==
    /\ timers' = ClearExistingTimeout(timers, scoreChangeTimeouts, characterId)
    /\ characters' = Omit(characters, characterId)
    /\ scoreChangeTimeouts' = Omit(scoreChangeTimeouts, characterId)
    /\ UNCHANGED nextTimeoutId
    /\ Observe(characterId, [op |-> "reset",
                             cancelling |-> LiveTimersOf(characterId) # {}])
    /\ SideBySide(resetCharacterNoTracking(characterId))
    /\ UNCHANGED <<mergeVars, pageVars, authVars>>

\* a due timer runs its callback: get().clearScoreChange(characterId); the
\* timer the same call created in the store without timeout tracking is due
\* at the same moment
TimerFire(t) ==
    /\ t \in timers
    /\ t.remaining = 0
    /\ ClearScoreChangeBody(timers \ {t}, t.characterId)
    /\ SideBySide(clearScoreChangeNoTracking(timersNoTracking \ {t}, t.characterId))
    /\ firesSince' = IF t.characterId = watched /\ firesSince < 2 THEN firesSince + 1 ELSE firesSince
    /\ lastFired' = IF t.characterId = watched THEN t.id ELSE lastFired
    /\ lastRead' = NoCall
    /\ UNCHANGED <<watched, lastCall, elapsed, callParity>>
    /\ UNCHANGED <<mergeVars, pageVars, authVars>>

\* one second passes; a due timer runs before the clock moves on
Tick ==
    /\ \A t \in timers \cup timersNoTracking : t.remaining > 0
    /\ timers' = {[t EXCEPT !.remaining = @ - 1] : t \in timers}
    /\ SideBySide(TickNoTracking)
    /\ elapsed' = IF elapsed <= ExpiryWindow THEN elapsed + 1 ELSE elapsed
    /\ lastRead' = NoCall
    /\ UNCHANGED <<characters, scoreChangeTimeouts, nextTimeoutId, watched, lastCall, firesSince, lastFired, callParity>>
    /\ UNCHANGED <<mergeVars, pageVars, authVars>>

\* faulty variant: the score change is persisted with the rest of the record
PartializeWithScoreChange(chars) == chars

\* partialize: every record is stored as { ...data, lastScoreChange: 0 };
\* scoreChangeTimeouts is not stored
Partialize(chars) == [id \in DOMAIN chars |-> [chars[id] EXCEPT !.lastScoreChange = 0]]

\* the page is reloaded: the store is created anew and the persisted part is
\* merged into it; the timers of the old page are gone with it
Reload ==
    /\ characters' = Partialize(characters)
    /\ scoreChangeTimeouts' = EmptyMap
    /\ timers' = {}
    /\ UNCHANGED nextTimeoutId
    /\ Observe(watched, [op |-> "reload",
                         midFlight |-> /\ watched \in DOMAIN characters
                                      /\ characters[watched].lastScoreChange # 0])
    /\ SideBySide(ReloadNoTracking)
    /\ UNCHANGED <<mergeVars, pageVars, authVars>>

\* faulty variant: a read of a character without a record stores the default for it
CharactersAfterReadCreated(chars, characterId) ==
    IF characterId \in DOMAIN chars THEN chars ELSE Put(chars, characterId, DEFAULT_RELATIONSHIP)

\* neither reader calls set: the characters map after a read is the one before
CharactersAfterRead(chars, characterId) == chars

\* a component reads a character through the hook
useCharacterRelationship(characterId) ==
    /\ lastRead' = IF characterId = watched
                   THEN [op |-> "use", result |-> read(characterId)]
                   ELSE NoCall
    /\ characters' = CharactersAfterRead(characters, characterId)
    /\ UNCHANGED <<scoreChangeTimeouts, timers, nextTimeoutId, variantVars>>
    /\ UNCHANGED <<watched, lastCall, elapsed, firesSince, lastFired, callParity>>
    /\ UNCHANGED <<mergeVars, pageVars, authVars>>

\* a caller reads a character through the store's own getter
getCharacterRelationshipCall(characterId) ==
    /\ lastRead' = IF characterId = watched
                   THEN [op |-> "get", result |-> getCharacterRelationship(characterId)]
                   ELSE NoCall
    /\ characters' = CharactersAfterRead(characters, characterId)
    /\ UNCHANGED <<scoreChangeTimeouts, timers, nextTimeoutId, variantVars>>
    /\ UNCHANGED <<watched, lastCall, elapsed, firesSince, lastFired, callParity>>
    /\ UNCHANGED <<mergeVars, pageVars, authVars>>

StoresCreated ==
    /\ charactersNoTracking = EmptyMap
    /\ timersNoTracking = {}
    /\ characters = EmptyMap
    /\ scoreChangeTimeouts = EmptyMap
    /\ timers = {}
    /\ nextTimeoutId = 1
    /\ watched \in CharacterIds
    /\ lastCall = NoCall
    /\ elapsed = 0
    /\ firesSince = 0
    /\ lastFired = 0
    /\ callParity = 0
    /\ lastRead = NoCall

\* the store on its own
StoreFresh == StoresCreated /\ sideBySide = FALSE

MergeIdle ==
    /\ inHistory = <<>>
    /\ inOptimistic = <<>>
    /\ outMessages = <<>>
    /\ outAgain = <<>>
    /\ mergePc = "idle"

\* ------------------------------------------------------- the chat page
MaxSends == 2        \* send attempts the model lets the user make

Null == "null"

SessionIds == {"s1", "s2"}

Space == " "

\* texts the user can have in the input box
TypedTexts == {<<"a">>, <<"a", Space>>, <<Space>>}

\* replies the language model can give
AiResponses == {<<"a">>}

NoRequest == [stage |-> "none"]

NoSend == [outcome |-> "none"]

\* String.prototype.trim
RECURSIVE TrimStart(_)
TrimStart(str) == IF str # <<>> /\ Head(str) = Space THEN TrimStart(Tail(str)) ELSE str

RECURSIVE TrimEnd(_)
TrimEnd(str) ==
    IF str # <<>> /\ str[Len(str)] = Space THEN TrimEnd(SubSeq(str, 1, Len(str) - 1)) ELSE str

Trim(str) == TrimEnd(TrimStart(str))

\* a message object created by the page; ref stands for the object's identity
NewMessage(ref, role, content, timestamp) ==
    [ref |-> ref, role |-> role, content |-> content, timestamp |-> timestamp]

\* the timestamp the server gives a message: its reading of the time, or none
ServerStamps(now) == {ToISOString(now), EmptyString}

\* a message as the server stores it, with the server's timestamp or none
StoredMessage(role, content, stamp) ==
    IF stamp = EmptyString THEN [role |-> role, content |-> content]
    ELSE [role |-> role, content |-> content, timestamp |-> stamp]

\* sessions?.find(s => s.id === currentSessionId)?.history || []
CurrentHistory(cache, sessionId) ==
    IF sessionId \in DOMAIN cache THEN cache[sessionId] ELSE <<>>

\* displayMessages, as computed on each render
DisplayOf(sessionId, cache, buffer) ==
    IF sessionId # Null
    THEN deduplicateMessages(CurrentHistory(cache, sessionId), buffer)
    ELSE buffer

displayMessages == DisplayOf(currentSessionId, sessions, localMessages)

RECURSIVE RemoveOptimisticByContent(_, _)
\* faulty variant: the rollback removes every entry with the optimistic message's content
RemoveOptimisticByContent(buffer, userMessage) ==
    IF buffer = <<>> THEN <<>>
    ELSE LET rest == RemoveOptimisticByContent(Tail(buffer), userMessage)
         IN IF Head(buffer).content # userMessage.content THEN <<Head(buffer)>> \o rest ELSE rest

RECURSIVE RemoveOptimistic(_, _)
\* prev.filter(m => m !== userMessage): comparison of object identities
RemoveOptimistic(buffer, userMessage) ==
    IF buffer = <<>> THEN <<>>
    ELSE LET rest == RemoveOptimistic(Tail(buffer), userMessage)
         IN IF Head(buffer).ref # userMessage.ref THEN <<Head(buffer)>> \o rest ELSE rest

\* onChange of the input: setMessage(e.target.value)
setMessage(text) ==
    /\ ~isPending
    /\ nextRef <= 2 * MaxSends
    /\ message' = text
    /\ UNCHANGED <<localMessages, currentSessionId, isTyping, isPending, request, sessions, clock, nextRef>>
    /\ UNCHANGED <<serverSessions, chatObserverVars>>
    /\ lastEvent' = "none"
    /\ UNCHANGED invalidated
    /\ UNCHANGED <<mergeVars, storeVars, observerVars, authVars>>

\* faulty variant: a message of blanks only is sent
SendBlockedWhenPending(text, pending) == text = EmptyString \/ pending

\* !message.trim() || sendMessage.isPending
SendBlocked(text, pending) == Trim(text) = EmptyString \/ pending

\* handleSend up to the await of sendMessage.mutateAsync
handleSend ==
    /\ SendBlocked(message, isPending) \/ nextRef <= 2 * MaxSends
    /\ lastEvent' = IF SendBlocked(message, isPending) THEN "ignored" ELSE "sent"
    /\ UNCHANGED invalidated
    /\ IF SendBlocked(message, isPending)
       THEN UNCHANGED <<chatVars, chatObserverVars>>
       ELSE LET userMessage == NewMessage(nextRef, RoleUser, Trim(message), ToISOString(clock))
            IN /\ localMessages' = Append(localMessages, userMessage)
               /\ message' = EmptyString
               /\ isTyping' = TRUE
               /\ isPending' = TRUE
               /\ request' = [stage |-> "sent", message |-> userMessage.content,
                              session_id |-> currentSessionId, userMessage |-> userMessage]
               /\ nextRef' = nextRef + 2
               /\ lastSend' = [outcome |-> "pending"]
               /\ bufferBeforeSend' = localMessages
               /\ displayBeforeSend' = displayMessages
               /\ switched' = FALSE
               /\ refetched' = FALSE
               /\ UNCHANGED <<currentSessionId, sessions, clock>>
    /\ UNCHANGED serverSessions
    /\ UNCHANGED <<mergeVars, storeVars, observerVars, authVars>>

\* the send-message exchange on the server: the user's message and the reply
\* are appended to the session, which is created when the request names none
ServerChat(sessionId, aiResponse, stamp) ==
    /\ request.stage = "sent"
    /\ IF request.session_id = Null
       THEN sessionId \notin DOMAIN serverSessions
       ELSE sessionId = request.session_id
    /\ serverSessions' = Put(serverSessions, sessionId,
            CurrentHistory(serverSessions, sessionId)
                \o <<StoredMessage(RoleUser, request.message, stamp),
                     StoredMessage(RoleAssistant, aiResponse, stamp)>>)
    /\ request' = [request EXCEPT !.stage = "replied"] @@
                  [session_id_out |-> sessionId, ai_response |-> aiResponse]
    /\ UNCHANGED <<message, localMessages, currentSessionId, isTyping, isPending, sessions, clock, nextRef>>
    /\ UNCHANGED chatObserverVars
    /\ lastEvent' = "none"
    /\ UNCHANGED invalidated
    /\ UNCHANGED <<mergeVars, storeVars, observerVars, authVars>>

\* chatKeys.sessions(boyfriendId) and chatKeys.session(id), for the one
\* character of the page
SessionsKey == <<"chat-sessions">>

SessionKey(sessionId) == <<"chat-session", sessionId>>

\* faulty variant: the list of sessions is not invalidated
InvalidatedSessionOnly(sessionId) == {SessionKey(sessionId)}

\* onSuccess of useSendMessage: the two invalidateQueries calls
InvalidatedOnSuccess(sessionId) == {SessionsKey, SessionKey(sessionId)}

\* the await returns, onSuccess having run: the rest of the try block and the
\* finally block
SendSucceeds ==
    /\ request.stage = "replied"
    /\ LET aiMessage == NewMessage(request.userMessage.ref + 1, RoleAssistant,
                                   request.ai_response, ToISOString(clock))
       IN localMessages' = Append(localMessages, aiMessage)
    /\ currentSessionId' = IF request.session_id = Null THEN request.session_id_out ELSE currentSessionId
    /\ isTyping' = FALSE
    /\ isPending' = FALSE
    /\ request' = NoRequest
    /\ lastSend' = [outcome |-> "success", userMessage |-> request.userMessage,
                    ai_response |-> request.ai_response, session_id |-> request.session_id_out]
    /\ UNCHANGED <<message, sessions, clock, nextRef, serverSessions>>
    /\ UNCHANGED <<bufferBeforeSend, displayBeforeSend, switched, refetched>>
    /\ invalidated' = invalidated \cup InvalidatedOnSuccess(request.session_id_out)
    /\ lastEvent' = "none"
    /\ UNCHANGED <<mergeVars, storeVars, observerVars, authVars>>

\* the request fails: the catch block and the finally block
SendFails ==
    /\ request.stage \in {"sent", "replied"}
    /\ localMessages' = RemoveOptimistic(localMessages, request.userMessage)
    /\ isTyping' = FALSE
    /\ isPending' = FALSE
    /\ request' = NoRequest
    /\ lastSend' = [outcome |-> "failure", userMessage |-> request.userMessage]
    /\ UNCHANGED <<message, currentSessionId, sessions, clock, nextRef, serverSessions>>
    /\ UNCHANGED <<bufferBeforeSend, displayBeforeSend, switched, refetched>>
    /\ lastEvent' = "none"
    /\ UNCHANGED invalidated
    /\ UNCHANGED <<mergeVars, storeVars, observerVars, authVars>>

\* the sessions query refetches: the cache is replaced by the server's list
RefetchSessions ==
    /\ sessions # serverSessions \/ SessionsKey \in invalidated
    /\ sessions' = serverSessions
    /\ refetched' = TRUE
    /\ UNCHANGED <<message, localMessages, currentSessionId, isTyping, isPending, request, clock, nextRef>>
    /\ UNCHANGED <<serverSessions, lastSend, bufferBeforeSend, displayBeforeSend, switched>>
    /\ invalidated' = invalidated \ {SessionsKey}
    /\ lastEvent' = "none"
    /\ UNCHANGED <<mergeVars, storeVars, observerVars, authVars>>

\* faulty variant: the buffer is kept when the chat context changes
BufferAfterSwitchKept(buffer) == buffer

\* setLocalMessages([])
BufferAfterSwitch(buffer) == <<>>

handleNewChat ==
    /\ currentSessionId' = Null
    /\ localMessages' = BufferAfterSwitch(localMessages)
    /\ switched' = TRUE
    /\ UNCHANGED <<message, isTyping, isPending, request, sessions, clock, nextRef>>
    /\ UNCHANGED <<serverSessions, lastSend, bufferBeforeSend, displayBeforeSend, refetched>>
    /\ lastEvent' = "new"
    /\ UNCHANGED invalidated
    /\ UNCHANGED <<mergeVars, storeVars, observerVars, authVars>>

handleSelectSession(sessionId) ==
    /\ sessionId \in DOMAIN sessions
    /\ currentSessionId' = sessionId
    /\ localMessages' = BufferAfterSwitch(localMessages)
    /\ switched' = TRUE
    /\ UNCHANGED <<message, isTyping, isPending, request, sessions, clock, nextRef>>
    /\ UNCHANGED <<serverSessions, lastSend, bufferBeforeSend, displayBeforeSend, refetched>>
    /\ lastEvent' = sessionId
    /\ UNCHANGED invalidated
    /\ UNCHANGED <<mergeVars, storeVars, observerVars, authVars>>

\* the browser clock moves on by a millisecond
ClockAdvance ==
    /\ clock < MaxClock
    /\ clock' = clock + 1
    /\ UNCHANGED <<message, localMessages, currentSessionId, isTyping, isPending, request, sessions, nextRef>>
    /\ UNCHANGED <<serverSessions, chatObserverVars>>
    /\ lastEvent' = "none"
    /\ UNCHANGED invalidated
    /\ UNCHANGED <<mergeVars, storeVars, observerVars, authVars>>

\* --------------------------------------------------------- the auth store
Users == {"u1", "u2"}

LoginFailed == "Login failed"

RegistrationFailed == "Registration failed"

\* the responses a request can fail with: 401, or anything else (no response,
\* another status)
Failures == {"unauthorized", "other"}

Paths == {"/login", "/register", "/dashboard"}

\* the routes under ProtectedRoute
ProtectedPaths == {"/dashboard"}

\* faulty variant: the authentication flag is persisted with the user
AuthPartializeWithFlag(state) == [user |-> state.user, isAuthenticated |-> state.isAuthenticated]

\* partialize: (state) => ({ user: state.user })
AuthPartialize(state) == [user |-> state.user]

\* the state the store is created with
AuthInitialState == [user |-> Null, isAuthenticated |-> FALSE, isLoading |-> FALSE, error |-> Null]

\* persist merges the persisted entry over the state the store is created with
Rehydrate(persisted) ==
    [field \in DOMAIN AuthInitialState |->
        IF field \in DOMAIN persisted THEN persisted[field] ELSE AuthInitialState[field]]

AuthState == [user |-> user, isAuthenticated |-> isAuthenticated, isLoading |-> isLoading, error |-> error]

SetAuthState(state) ==
    /\ user' = state.user
    /\ isAuthenticated' = state.isAuthenticated
    /\ isLoading' = state.isLoading
    /\ error' = state.error

\* what a route under ProtectedRoute shows: the spinner of AuthInitializer
\* while it initializes, then the page or the redirect of ProtectedRoute
ProtectedRoute ==
    IF isInitializing THEN "spinner"
    ELSE IF ~isAuthenticated THEN "/login"
    ELSE "outlet"

\* the page is loaded at `path` with the store in `state`: the store is created
\* anew from the persisted entry, AuthInitializer mounts, the request of the
\* old page is lost
LoadPage(state, path) ==
    /\ SetAuthState(Rehydrate(AuthPartialize(state)))
    /\ isInitializing' = TRUE
    /\ authRequest' = "none"
    /\ location' = path
    /\ reloaded' = loggedIn

\* the response interceptor: a 401 sets window.location.href = "/login", which
\* loads the page again once the handler of the failure has run; otherwise the
\* handler's state stays, with the request `next` in flight and the router at `path`
AfterResponse(response, state, next, path) ==
    IF response = "unauthorized"
    THEN LoadPage(state, "/login")
    ELSE /\ SetAuthState(state)
         /\ authRequest' = next
         /\ location' = path
         /\ UNCHANGED <<isInitializing, reloaded>>

\* the user reloads the page
AuthReload ==
    /\ LoadPage(AuthState, location)
    /\ UNCHANGED <<loggedIn, lastCheck>>
    /\ UNCHANGED <<mergeVars, storeVars, observerVars, pageVars>>

\* AuthInitializer's effect: checkAuth() up to its request
checkAuth ==
    /\ isInitializing /\ authRequest = "none"
    /\ isLoading' = TRUE
    /\ authRequest' = "checkAuth"
    /\ UNCHANGED <<user, isAuthenticated, error, isInitializing, location>>
    /\ UNCHANGED <<loggedIn, reloaded, lastCheck>>
    /\ UNCHANGED <<mergeVars, storeVars, observerVars, pageVars>>

\* GET /auth/me answered with the user; then setIsInitializing(false)
CheckAuthSucceeds(responseUser) ==
    /\ authRequest = "checkAuth"
    /\ SetAuthState([AuthState EXCEPT !.user = responseUser, !.isAuthenticated = TRUE,
                                      !.isLoading = FALSE])
    /\ isInitializing' = FALSE
    /\ authRequest' = "none"
    /\ lastCheck' = "ok"
    /\ UNCHANGED <<location, loggedIn, reloaded>>
    /\ UNCHANGED <<mergeVars, storeVars, observerVars, pageVars>>

\* GET /auth/me failed: the catch of checkAuth; then setIsInitializing(false)
CheckAuthFails(failure) ==
    /\ authRequest = "checkAuth"
    /\ LET cleared == [AuthState EXCEPT !.user = Null, !.isAuthenticated = FALSE,
                                        !.isLoading = FALSE]
       IN IF failure = "unauthorized"
          THEN LoadPage(cleared, "/login")
          ELSE /\ SetAuthState(cleared)
               /\ isInitializing' = FALSE
               /\ authRequest' = "none"
               /\ UNCHANGED <<location, reloaded>>
    /\ lastCheck' = failure
    /\ UNCHANGED loggedIn
    /\ UNCHANGED <<mergeVars, storeVars, observerVars, pageVars>>

\* ProtectedRoute: <Navigate to="/login" replace />
RedirectToLogin ==
    /\ ~isInitializing /\ location \in ProtectedPaths /\ ~isAuthenticated
    /\ location' = "/login"
    /\ UNCHANGED <<authStoreVars, isInitializing, authRequest, loggedIn, reloaded, lastCheck>>
    /\ UNCHANGED <<mergeVars, storeVars, observerVars, pageVars>>

\* PublicRoute: <Navigate to="/dashboard" replace />
RedirectToDashboard ==
    /\ ~isInitializing /\ location \notin ProtectedPaths /\ isAuthenticated
    /\ location' = "/dashboard"
    /\ UNCHANGED <<authStoreVars, isInitializing, authRequest, loggedIn, reloaded, lastCheck>>
    /\ UNCHANGED <<mergeVars, storeVars, observerVars, pageVars>>

\* the links between the Login and the Register page
Visit(path) ==
    /\ ~isInitializing /\ ~isAuthenticated
    /\ location \in {"/login", "/register"} /\ path \in {"/login", "/register"} \ {location}
    /\ location' = path
    /\ UNCHANGED <<authStoreVars, isInitializing, authRequest, loggedIn, reloaded, lastCheck>>
    /\ UNCHANGED <<mergeVars, storeVars, observerVars, pageVars>>

\* the Login page calls login() up to its request
login ==
    /\ ~isInitializing /\ ~isAuthenticated /\ location = "/login" /\ authRequest = "none"
    /\ isLoading' = TRUE
    /\ error' = Null
    /\ authRequest' = "login"
    /\ UNCHANGED <<user, isAuthenticated, isInitializing, location, loggedIn, reloaded, lastCheck>>
    /\ UNCHANGED <<mergeVars, storeVars, observerVars, pageVars>>

\* POST /auth/login answered with the user; the page that called navigates to /dashboard
LoginSucceeds(responseUser) ==
    /\ authRequest \in {"login", "registerLogin"}
    /\ SetAuthState([AuthState EXCEPT !.user = responseUser, !.isAuthenticated = TRUE,
                                      !.isLoading = FALSE])
    /\ authRequest' = "none"
    /\ location' = "/dashboard"
    /\ loggedIn' = TRUE
    /\ reloaded' = FALSE
    /\ UNCHANGED <<isInitializing, lastCheck>>
    /\ UNCHANGED <<mergeVars, storeVars, observerVars, pageVars>>

\* POST /auth/login failed: the catch of login, and the catch of register
\* when register called it
LoginFails(failure) ==
    /\ authRequest \in {"login", "registerLogin"}
    /\ AfterResponse(failure,
                     [AuthState EXCEPT !.error = IF authRequest = "login" THEN LoginFailed
                                                 ELSE RegistrationFailed,
                                       !.isLoading = FALSE],
                     "none", location)
    /\ UNCHANGED <<loggedIn, lastCheck>>
    /\ UNCHANGED <<mergeVars, storeVars, observerVars, pageVars>>

\* the Register page calls register() up to its request
register ==
    /\ ~isInitializing /\ ~isAuthenticated /\ location = "/register" /\ authRequest = "none"
    /\ isLoading' = TRUE
    /\ error' = Null
    /\ authRequest' = "register"
    /\ UNCHANGED <<user, isAuthenticated, isInitializing, location, loggedIn, reloaded, lastCheck>>
    /\ UNCHANGED <<mergeVars, storeVars, observerVars, pageVars>>

\* POST /auth/register answered: register calls login() up to its request
RegisterSucceeds ==
    /\ authRequest = "register"
    /\ isLoading' = TRUE
    /\ error' = Null
    /\ authRequest' = "registerLogin"
    /\ UNCHANGED <<user, isAuthenticated, isInitializing, location, loggedIn, reloaded, lastCheck>>
    /\ UNCHANGED <<mergeVars, storeVars, observerVars, pageVars>>

\* POST /auth/register failed: the catch of register
RegisterFails(failure) ==
    /\ authRequest = "register"
    /\ AfterResponse(failure,
                     [AuthState EXCEPT !.error = RegistrationFailed, !.isLoading = FALSE],
                     "none", location)
    /\ UNCHANGED <<loggedIn, lastCheck>>
    /\ UNCHANGED <<mergeVars, storeVars, observerVars, pageVars>>

\* the Dashboard calls logout() up to its request and navigates to /login
logout ==
    /\ ~isInitializing /\ isAuthenticated /\ location \in ProtectedPaths /\ authRequest = "none"
    /\ authRequest' = "logout"
    /\ location' = "/login"
    /\ loggedIn' = FALSE
    /\ UNCHANGED <<authStoreVars, isInitializing, reloaded, lastCheck>>
    /\ UNCHANGED <<mergeVars, storeVars, observerVars, pageVars>>

\* POST /auth/logout answered, with whatever outcome: the client state is cleared
LogoutReturns(outcome) ==
    /\ authRequest = "logout"
    /\ AfterResponse(outcome,
                     [AuthState EXCEPT !.user = Null, !.isAuthenticated = FALSE, !.error = Null],
                     "none", location)
    /\ UNCHANGED <<loggedIn, lastCheck>>
    /\ UNCHANGED <<mergeVars, storeVars, observerVars, pageVars>>

\* the store as created and AuthInitializer as mounted by the first page load
AuthFresh ==
    /\ user = Null
    /\ isAuthenticated = FALSE
    /\ isLoading = FALSE
    /\ error = Null
    /\ isInitializing = TRUE
    /\ authRequest = "none"
    /\ location = "/dashboard"
    /\ loggedIn = FALSE
    /\ reloaded = FALSE
    /\ lastCheck = "none"

PageFresh ==
    /\ message = EmptyString
    /\ localMessages = <<>>
    /\ currentSessionId = Null
    /\ isTyping = FALSE
    /\ isPending = FALSE
    /\ request = NoRequest
    /\ sessions = EmptyMap
    /\ clock = 1
    /\ nextRef = 1
    /\ serverSessions = EmptyMap
    /\ lastSend = NoSend
    /\ bufferBeforeSend = <<>>
    /\ displayBeforeSend = <<>>
    /\ switched = FALSE
    /\ refetched = FALSE
    /\ invalidated = {}
    /\ lastEvent = "none"

ChatInit == PageFresh /\ StoreFresh /\ watched = "c1" /\ MergeIdle /\ AuthFresh

AuthInit == AuthFresh /\ PageFresh /\ StoreFresh /\ watched = "c1" /\ MergeIdle

AuthNext ==
    \/ checkAuth
    \/ \E responseUser \in Users : CheckAuthSucceeds(responseUser)
    \/ \E failure \in Failures : CheckAuthFails(failure)
    \/ login
    \/ \E responseUser \in Users : LoginSucceeds(responseUser)
    \/ \E failure \in Failures : LoginFails(failure)
    \/ register
    \/ RegisterSucceeds
    \/ \E failure \in Failures : RegisterFails(failure)
    \/ RedirectToLogin
    \/ RedirectToDashboard
    \/ \E path \in Paths : Visit(path)
    \/ logout
    \/ \E outcome \in Failures \cup {"ok"} : LogoutReturns(outcome)
    \/ AuthReload

SpecAuth == AuthInit /\ [][AuthNext]_vars

ChatNext ==
    \/ \E text \in TypedTexts : setMessage(text)
    \/ handleSend
    \/ \E s \in SessionIds, r \in AiResponses, stamp \in ServerStamps(clock) : ServerChat(s, r, stamp)
    \/ SendSucceeds
    \/ SendFails
    \/ RefetchSessions
    \/ handleNewChat
    \/ \E s \in SessionIds : handleSelectSession(s)
    \/ ClockAdvance

SpecChat == ChatInit /\ [][ChatNext]_vars

\* an invalidated query with an observer is refetched, and the refetch comes back
SpecChatFair == ChatInit /\ [][ChatNext]_vars /\ WF_vars(RefetchSessions)

\* ------------------------------------- the store as a system of its own
StoreInit == StoreFresh /\ MergeIdle /\ PageFresh /\ AuthFresh

StoreNext ==
    \/ \E c \in CharacterIds, v \in ResponseValues : updateFromResponse(c, v[1], v[2], v[3])
    \/ \E c \in CharacterIds, v \in CharacterValues : initFromCharacter(c, v[1], v[2])
    \/ \E c \in CharacterIds : clearScoreChange(c)
    \/ \E c \in CharacterIds : resetCharacter(c)
    \/ \E t \in timers : TimerFire(t)
    \/ Tick
    \/ Reload

SpecStore == StoreInit /\ [][StoreNext]_vars

\* the two characters being interchangeable, the first one is the watched one
StoreInitWatched == StoreInit /\ watched = "c1"

\* the event loop keeps running: time passes and due timers run
SpecStoreFair ==
    /\ StoreInitWatched
    /\ [][StoreNext]_vars
    /\ WF_vars(Tick) /\ WF_vars(\E t \in timers : TimerFire(t))

\* a due timer of the store without timeout tracking whose twin was cancelled
\* in the store: its callback, clearScoreChange(characterId), runs there alone
TimerFireNoTracking(t) ==
    /\ t \in timersNoTracking \ timers
    /\ t.remaining = 0
    /\ clearScoreChangeNoTracking(timersNoTracking \ {t}, t.characterId)
    /\ UNCHANGED sideBySide
    /\ UNCHANGED <<characters, scoreChangeTimeouts, timers, nextTimeoutId>>
    /\ lastRead' = NoCall
    /\ UNCHANGED <<watched, lastCall, elapsed, firesSince, lastFired, callParity>>
    /\ UNCHANGED <<mergeVars, pageVars, authVars>>

\* the two stores created together and given the same calls at the same times
VariantsInit ==
    /\ StoresCreated /\ sideBySide = TRUE /\ watched = "c1"
    /\ MergeIdle /\ PageFresh /\ AuthFresh

VariantsNext ==
    \/ StoreNext
    \/ \E t \in timersNoTracking : TimerFireNoTracking(t)

SpecVariants == VariantsInit /\ [][VariantsNext]_vars

\* the store with its readers
StoreReadNext ==
    \/ StoreNext
    \/ \E characterId \in CharacterIds : useCharacterRelationship(characterId)
    \/ \E characterId \in CharacterIds : getCharacterRelationshipCall(characterId)

SpecStoreRead == StoreInitWatched /\ [][StoreReadNext]_vars

\* ------------------------------------------- the merge as a pure function
MergeInit ==
    /\ inHistory \in SeqsUpTo(ChatMessage, MaxHistory)
    /\ inOptimistic \in SeqsUpTo(ChatMessage, MaxBuffer)
    /\ outMessages = <<>>
    /\ outAgain = <<>>
    /\ mergePc = "input"
    /\ StoreFresh /\ watched = "c1"
    /\ PageFresh
    /\ AuthFresh

\* one render: displayMessages = deduplicateMessages(history, localMessages)
Merge ==
    /\ mergePc = "input"
    /\ outMessages' = deduplicateMessages(inHistory, inOptimistic)
    /\ mergePc' = "merged"
    /\ UNCHANGED <<inHistory, inOptimistic, outAgain>>
    /\ UNCHANGED <<storeVars, observerVars, pageVars, authVars>>

\* the merged list fed back as the history, with an empty buffer
Remerge ==
    /\ mergePc = "merged"
    /\ outAgain' = deduplicateMessages(outMessages, <<>>)
    /\ mergePc' = "remerged"
    /\ UNCHANGED <<inHistory, inOptimistic, outMessages>>
    /\ UNCHANGED <<storeVars, observerVars, pageVars, authVars>>

MergeNext == Merge \/ Remerge

SpecMerge == MergeInit /\ [][MergeNext]_vars

\* ------------------------------------------------- properties of the merge
NoDuplicateTuples(msgs) ==
    \A i, j \in DOMAIN msgs : i # j => IdentityTuple(msgs[i]) # IdentityTuple(msgs[j])

TuplesOf(msgs) == {IdentityTuple(msgs[i]) : i \in DOMAIN msgs}

RECURSIVE UnconfirmedOf(_, _)
UnconfirmedOf(optimisticMessages, historyTuples) ==
    IF optimisticMessages = <<>> THEN <<>>
    ELSE LET msg == Head(optimisticMessages)
             rest == UnconfirmedOf(Tail(optimisticMessages), historyTuples)
         IN IF IdentityTuple(msg) \notin historyTuples THEN <<msg>> \o rest ELSE rest

\* C1 as stated: whatever the history and the buffer hold, the merged list
\* never holds the same identity tuple twice.
C1_NoDuplicationAnyInput ==
    mergePc # "input" => NoDuplicateTuples(outMessages)

\* C1 amended: when neither the history nor the buffer repeats an identity
\* tuple, the merged list holds no identity tuple twice.
C1_NoDuplicationFromCleanInputs ==
    (mergePc # "input" /\ NoDuplicateTuples(inHistory) /\ NoDuplicateTuples(inOptimistic))
        => NoDuplicateTuples(outMessages)

\* a merge of clean inputs in which the filter removed a buffer entry and kept one
C1_Witness ==
    /\ mergePc = "merged"
    /\ NoDuplicateTuples(inHistory) /\ NoDuplicateTuples(inOptimistic)
    /\ Len(inHistory) = 2 /\ Len(inOptimistic) = 2
    /\ Len(outMessages) = 3
    /\ TuplesOf(inOptimistic) \cap TuplesOf(inHistory) # {}

\* C6: the merged list is the history followed by exactly the buffer entries
\* whose identity tuple does not occur in the history, in the buffer's order.
C6_HistoryThenUnconfirmedBuffer ==
    mergePc # "input" =>
        outMessages = inHistory \o UnconfirmedOf(inOptimistic, TuplesOf(inHistory))

\* C7: merging the merged list again with an empty buffer changes nothing.
C7_MergeIdempotent ==
    mergePc = "remerged" => outAgain = outMessages

\* a re-merge of a list that came out of a merge that filtered something
C7_Witness ==
    /\ mergePc = "remerged"
    /\ outMessages # <<>>
    /\ inOptimistic # <<>>
    /\ Len(outMessages) < Len(inHistory) + Len(inOptimistic)

\* ------------------------------------------------- properties of the store
IsUpdate(call) == call.op = "update"

UpdateRecord(call) == RelationshipData(call.score, call.status, call.scoreChange)

\* C2: when an update that replaced a still pending update has been the last
\* call for a character for longer than the window, the score change reads 0,
\* the score is the second call's, and exactly one expiry callback has run for
\* the character: the one the second call scheduled.
C2_TransientRaceSafety ==
    (IsUpdate(lastCall) /\ lastCall.superseding /\ elapsed > ExpiryWindow)
            => /\ read(watched).lastScoreChange = 0
               /\ read(watched).score = lastCall.score
               /\ firesSince = 1
               /\ lastFired = lastCall.timeoutId

\* two updates in a row with different values, the second inside the first's window
C2_Witness ==
    /\ IsUpdate(lastCall) /\ lastCall.superseding
        /\ lastCall.timeoutId = 2
        /\ lastCall.score = 70
        /\ elapsed > ExpiryWindow
        /\ firesSince = 1
        /\ read(watched) = RelationshipData(70, "Curious", 0)

\* C3 as stated: initFromCharacter(id, 70, "Curious") right after
\* updateFromResponse(id, 80, "Smitten", 5) leaves score 80 and status "Smitten".
C3_StaleInitDoesNotOverwrite ==
    [][  (/\ lastCall # lastCall'
         /\ IsUpdate(lastCall) /\ UpdateRecord(lastCall) = RelationshipData(80, "Smitten", 5)
         /\ lastCall' = [op |-> "init", score |-> 70, status |-> "Curious"])
            => (read(watched).score = 80 /\ read(watched).status = "Smitten")']_vars

\* C3 amended: initFromCharacter(id, 70, "Curious") after
\* updateFromResponse(id, 80, "Smitten", 5) overwrites the record with
\* (70, "Curious", score change 0); only initFromCharacter with the stored
\* values (80, "Smitten") leaves the record, score change included, as it was.
C3_InitOverwritesWhenDifferent ==
    [][  (/\ lastCall # lastCall'
         /\ IsUpdate(lastCall) /\ UpdateRecord(lastCall) = RelationshipData(80, "Smitten", 5)
         /\ lastCall'.op = "init")
            => /\ (lastCall'.score = 70 /\ lastCall'.status = "Curious")
                    => read(watched)' = RelationshipData(70, "Curious", 0)
               /\ (lastCall'.score = 80 /\ lastCall'.status = "Smitten")
                    => (read(watched)' = read(watched) /\ read(watched).score = 80 /\ read(watched).status = "Smitten")]_vars

\* the stale init has just run on a record that held 80/"Smitten" with its indicator
C3_Witness ==
    /\ lastCall = [op |-> "init", score |-> 70, status |-> "Curious"]
        /\ lastFired = 0
        /\ elapsed = 0
        /\ scoreChangeTimeouts = [k \in {watched} |-> 1]
        /\ read(watched) = RelationshipData(70, "Curious", 0)

\* C4: at most one expiry timer is pending per character.
C4_AtMostOneLiveTimer ==
    \A c \in CharacterIds : Cardinality(LiveTimersOf(c)) <= 1

\* an update has just replaced a pending timer of the same character
C4_Witness ==
    /\ IsUpdate(lastCall) /\ lastCall.superseding
        /\ elapsed = 0
        /\ LiveTimersOf(watched) = {[id |-> lastCall.timeoutId, characterId |-> watched, remaining |-> ExpiryWindow]}

\* C5: while an update that replaced a pending update is the last call for a
\* character and its window has not yet elapsed, the record reads exactly the
\* values of that update, score change included.
C5_LastUpdateWins ==
    (IsUpdate(lastCall) /\ lastCall.superseding /\ elapsed < ExpiryWindow)
            => read(watched) = UpdateRecord(lastCall)

\* the moment at which the replaced update's timer would have run
C5_Witness ==
    /\ IsUpdate(lastCall) /\ lastCall.superseding
        /\ elapsed = 1
        /\ \E t \in LiveTimersOf(watched) : t.remaining = ExpiryWindow - 1
        /\ read(watched).lastScoreChange # 0
        /\ lastFired = 0

\* C10: an update that stays the last call for its character is eventually
\* followed by its expiry callback; once that has run, and for as long as no
\* other call is made for the character, the score change is 0, score and
\* status are the update's, no timeout is stored and no timer is pending.
C10_ExpiryLiveness ==
    /\ \A h \in 1..MaxTimeouts :
        (IsUpdate(lastCall) /\ lastCall.timeoutId = h /\ firesSince = 0)
            ~> (~(IsUpdate(lastCall) /\ lastCall.timeoutId = h) \/ firesSince >= 1)
    /\ []((IsUpdate(lastCall) /\ firesSince >= 1)
                => /\ firesSince = 1
                   /\ lastFired = lastCall.timeoutId
                   /\ read(watched) = RelationshipData(lastCall.score, lastCall.status, 0)
                   /\ watched \notin DOMAIN scoreChangeTimeouts
                   /\ LiveTimersOf(watched) = {})

\* a single update whose window has elapsed and whose callback has run
C10_Witness ==
    /\ IsUpdate(lastCall) /\ ~lastCall.superseding
        /\ firesSince = 1
        /\ elapsed = ExpiryWindow
        /\ read(watched) = RelationshipData(80, "Smitten", 0)

\* --------------------------------------------- properties of the chat page
\* how many entries of a list carry the given role and text
CountOf(msgs, role, content) ==
    Cardinality({i \in DOMAIN msgs : msgs[i].role = role /\ msgs[i].content = content})

\* the last send succeeded, the buffer still holds its two messages, and the
\* cached history of the selected session is the server's, exchange included
ExchangeConfirmed ==
    /\ lastSend.outcome = "success"
    /\ ~switched
    /\ currentSessionId = lastSend.session_id
    /\ currentSessionId \in DOMAIN sessions
    /\ sessions[currentSessionId] = serverSessions[currentSessionId]

\* C8: once the refetched history of the session holds the exchange of a
\* successful send, the transcript shows the user's message and the reply as
\* often as the history holds them, the buffer's copies adding none.
C8_ConfirmedExchangeShownOnce ==
    ExchangeConfirmed =>
        /\ CountOf(displayMessages, RoleUser, lastSend.userMessage.content)
             = CountOf(sessions[currentSessionId], RoleUser, lastSend.userMessage.content)
        /\ CountOf(displayMessages, RoleAssistant, lastSend.ai_response)
             = CountOf(sessions[currentSessionId], RoleAssistant, lastSend.ai_response)

IsCall == callParity' # callParity

\* C11: after resetCharacter(id), and as long as no updateFromResponse or
\* initFromCharacter for id follows, no timer runs for id, no timeout is stored
\* for id, no timer is pending for id and reading id gives the default record.
C11_ResetCancelsAndRemoves ==
    /\ [](lastCall.op = "reset" =>
            /\ firesSince = 0
            /\ watched \notin DOMAIN characters
            /\ watched \notin DOMAIN scoreChangeTimeouts
            /\ LiveTimersOf(watched) = {}
            /\ read(watched) = DEFAULT_RELATIONSHIP)
    /\ [][(/\ watched \notin DOMAIN characters
           /\ ~(IsCall /\ lastCall'.op \in {"update", "init"}))
              => /\ watched \notin DOMAIN characters'
                 /\ watched \notin DOMAIN scoreChangeTimeouts'
                 /\ LiveTimersOf(watched)' = {}
                 /\ firesSince' = firesSince]_vars

\* a reset that cancelled a pending timer, the expiry window since gone by
C11_Witness ==
    /\ lastCall.op = "reset" /\ lastCall.cancelling
    /\ elapsed > ExpiryWindow
    /\ firesSince = 0
    /\ read(watched) = DEFAULT_RELATIONSHIP

\* a step that is a read of the watched character
IsRead == lastRead' # NoCall

\* C12 as stated, for both readers the store has: a read of a character
\* without a record gives the default record {50, "Neutral", 0}.
C12_ReadGivesDefault ==
    [][(IsRead /\ watched \notin DOMAIN characters)
        => lastRead'.result = RelationshipData(50, "Neutral", 0)]_vars

\* C12, amended: for a character without a record the hook
\* useCharacterRelationship gives the default record {50, "Neutral", 0} and the
\* store's getCharacterRelationship gives null; a character with a record is
\* read as that record by both.
C12_HookGivesDefaultGetterNull ==
    [][IsRead =>
        /\ (watched \notin DOMAIN characters /\ lastRead'.op = "use")
              => lastRead'.result = RelationshipData(50, "Neutral", 0)
        /\ (watched \notin DOMAIN characters /\ lastRead'.op = "get")
              => lastRead'.result = NullData
        /\ watched \in DOMAIN characters => lastRead'.result = characters[watched]]_vars

\* the hook has just read a character whose record a reset removed
C12_Witness ==
    /\ lastCall.op = "reset" /\ lastCall.cancelling
    /\ lastRead = [op |-> "use", result |-> DEFAULT_RELATIONSHIP]
    /\ watched \notin DOMAIN characters

\* C13: a page reload keeps for every character the score and status held just
\* before it, with a score change of 0, no stored timeout and no pending timer;
\* a score change that was showing at the reload is not showing afterwards and
\* no timer of the old page runs, until the next call for the character.
C13_ReloadRestoresScoreAndStatus ==
    /\ [][(IsCall /\ lastCall'.op = "reload")
            => /\ DOMAIN characters' = DOMAIN characters
               /\ \A id \in DOMAIN characters :
                      /\ characters'[id].score = characters[id].score
                      /\ characters'[id].status = characters[id].status
                      /\ characters'[id].lastScoreChange = 0
               /\ scoreChangeTimeouts' = EmptyMap
               /\ timers' = {}]_vars
    /\ [](lastCall.op = "reload" =>
            /\ read(watched).lastScoreChange = 0
            /\ firesSince = 0
            /\ watched \notin DOMAIN scoreChangeTimeouts
            /\ LiveTimersOf(watched) = {})

\* a reload while the score change of an update was showing, the update's
\* expiry window since gone by
C13_Witness ==
    /\ lastCall.op = "reload" /\ lastCall.midFlight
    /\ elapsed > ExpiryWindow
    /\ firesSince = 0
    /\ read(watched) = RelationshipData(80, "Smitten", 0)

\* C14: clearScoreChange(id) for a character that has a record sets its score
\* change to 0, cancels the timer whose id is stored for it and removes that
\* id, and leaves its score and status, and everything of the other characters,
\* as they were.
C14_ClearZeroesAndCancels ==
    [][(IsCall /\ lastCall'.op = "clear" /\ watched \in DOMAIN characters)
        => /\ characters' = Put(characters, watched,
                                RelationshipData(characters[watched].score,
                                                 characters[watched].status, 0))
           /\ watched \notin DOMAIN scoreChangeTimeouts'
           /\ LiveTimersOf(watched)' = {}
           /\ \A id \in CharacterIds \ {watched} :
                 /\ (id \in DOMAIN scoreChangeTimeouts' <=> id \in DOMAIN scoreChangeTimeouts)
                 /\ id \in DOMAIN scoreChangeTimeouts
                       => scoreChangeTimeouts'[id] = scoreChangeTimeouts[id]
                 /\ LiveTimersOf(id)' = LiveTimersOf(id)]_vars

\* a clear that came before the timer ran: the timer was cancelled, the score
\* change is gone and score and status are those of the update
C14_Witness ==
    /\ lastCall.op = "clear" /\ lastCall.cancelling
    /\ elapsed > ExpiryWindow
    /\ firesSince = 0
    /\ read(watched) = RelationshipData(70, "Curious", 0)
    /\ watched \notin DOMAIN scoreChangeTimeouts

\* C15: a clearScoreChange(id) that follows a clearScoreChange(id) changes
\* neither the records nor the stored timeouts nor the pending timers; and in
\* every state the store can be in, clearing twice gives what clearing once gives.
C15_ClearIdempotent ==
    /\ [][(IsCall /\ lastCall'.op = "clear" /\ lastCall'.again)
            => UNCHANGED <<characters, scoreChangeTimeouts, timers>>]_vars
    /\ [](\A id \in CharacterIds :
            LET once == ClearScoreChangeState(timers, characters, scoreChangeTimeouts, id)
            IN ClearScoreChangeState(once.timers, once.characters,
                                     once.scoreChangeTimeouts, id) = once)

\* the second of two clears, the first of which cancelled the timer of an update
C15_Witness ==
    /\ lastCall.op = "clear" /\ lastCall.again
    /\ nextTimeoutId = 2
    /\ lastFired = 0
    /\ timers = {}
    /\ read(watched) = RelationshipData(80, "Smitten", 0)

\* the score change showing for a character, 0 when it has no record
ScoreChangeOf(chars, characterId) ==
    IF characterId \in DOMAIN chars THEN chars[characterId].lastScoreChange ELSE 0

\* C16: the score change of a character goes from 0 (or no record) to a value
\* other than 0 only in an updateFromResponse step for that character, the step
\* that takes the next timeout id and stores it for the character; no read,
\* init, clear, reset, timer or reload does it.
C16_ScoreChangeOnlyFromUpdate ==
    [][\A id \in CharacterIds :
        (ScoreChangeOf(characters, id) = 0 /\ ScoreChangeOf(characters', id) # 0)
            => /\ nextTimeoutId' = nextTimeoutId + 1
               /\ id \in DOMAIN scoreChangeTimeouts'
               /\ scoreChangeTimeouts'[id] = nextTimeoutId
               /\ lastRead' = NoCall
               /\ id = watched => (IsCall /\ lastCall'.op = "update")]_vars

\* the second update of the store has just made a score change show for a
\* character that had no timer pending
C16_Witness ==
    /\ IsUpdate(lastCall) /\ ~lastCall.superseding
    /\ lastCall.timeoutId = 2
    /\ elapsed = 0
    /\ lastFired = 0
    /\ read(watched) = RelationshipData(80, "Smitten", 5)
    /\ \A t \in timers : t.id = 2

\* C19: initFromCharacter(id, s, l) writes exactly when id has no record or the
\* stored score or status differs from s or l; when it writes, the record
\* becomes (s, l, 0); when it does not, the records stay as they are; in both
\* cases the stored timeouts and the pending timers stay as they are.
C19_InitWritesIffDifferent ==
    [][(IsCall /\ lastCall'.op = "init")
        => LET differs == \/ watched \notin DOMAIN characters
                          \/ characters[watched].score # lastCall'.score
                          \/ characters[watched].status # lastCall'.status
           IN /\ differs => characters' = Put(characters, watched,
                                RelationshipData(lastCall'.score, lastCall'.status, 0))
              /\ differs <=> characters' # characters
              /\ UNCHANGED <<scoreChangeTimeouts, timers>>]_vars

\* an init with the stored score and another status, while the timer of the
\* update that stored the score is pending: the record is overwritten
C19_Witness ==
    /\ lastCall = [op |-> "init", score |-> 80, status |-> "Curious"]
    /\ read(watched) = RelationshipData(80, "Curious", 0)
    /\ LiveTimersOf(watched) # {}
    /\ watched \in DOMAIN scoreChangeTimeouts

\* C17: clearScoreChange(id) and resetCharacter(id) for a character without a
\* record, and a read of any character, can always be made and leave the
\* records, the stored timeouts and the pending timers as they are.
C17_OperationsTotal ==
    /\ [][(IsCall /\ lastCall'.op \in {"clear", "reset"} /\ watched \notin DOMAIN characters)
            => UNCHANGED <<characters, scoreChangeTimeouts, timers>>]_vars
    /\ [][IsRead => UNCHANGED <<characters, scoreChangeTimeouts, timers>>]_vars
    /\ [](\A id \in CharacterIds :
            /\ ENABLED clearScoreChange(id)
            /\ ENABLED resetCharacter(id)
            /\ ENABLED useCharacterRelationship(id)
            /\ ENABLED getCharacterRelationshipCall(id))

\* a clear for a character without a record while the other character's timer
\* is pending, then a read of it through the getter
C17_Witness ==
    /\ lastCall.op = "clear"
    /\ watched \notin DOMAIN characters
    /\ timers # {}
    /\ DOMAIN scoreChangeTimeouts = CharacterIds \ {watched}
    /\ lastRead = [op |-> "get", result |-> NullData]

\* C20 as stated: after a read of a character without a record the store holds
\* a record for it, with the default values 50 and "Neutral".
C20_ReadCreatesRecord ==
    [][(IsRead /\ watched \notin DOMAIN characters)
        => /\ watched \in DOMAIN characters'
           /\ characters'[watched].score = 50
           /\ characters'[watched].status = "Neutral"]_vars

\* C20, amended: a record is created by updateFromResponse or initFromCharacter
\* only; a read of a character without a record, through the hook or through
\* the getter, leaves the store without a record for it.
C20_RecordCreatedByUpdateOrInitOnly ==
    [][(watched \notin DOMAIN characters /\ watched \in DOMAIN characters')
        => /\ IsCall /\ lastCall'.op \in {"update", "init"}
           /\ ~IsRead
           /\ characters'[watched] =
                 RelationshipData(lastCall'.score, lastCall'.status,
                                  IF lastCall'.op = "update" THEN lastCall'.scoreChange ELSE 0)]_vars

\* the hook has just given the default for a character that was never written
\* while the other character has a record: still no record for it
C20_Witness ==
    /\ lastCall = NoCall
    /\ lastRead = [op |-> "use", result |-> DEFAULT_RELATIONSHIP]
    /\ watched \notin DOMAIN characters
    /\ DOMAIN characters = CharacterIds \ {watched}

\* ---- the auth store ----

\* C18 as stated: once a login has succeeded and no logout has followed, a
\* reload of the page leaves isAuthenticated true and a protected route shows
\* its page.
C18_ReloadLeavesAuthenticated ==
    (loggedIn /\ reloaded) => (isAuthenticated /\ ProtectedRoute = "outlet")

\* C18, amended: after a login that succeeded, with no logout and no new login
\* since, a reload restores the user from the persisted entry but not
\* isAuthenticated: while AuthInitializer initializes, isAuthenticated is false
\* and a protected route shows neither its page nor a redirect; after that
\* isAuthenticated is true, and the protected route shows its page, exactly
\* when the GET /auth/me of checkAuth succeeded, and otherwise the route
\* redirects to /login.
C18_ReloadAuthenticatedByCheckAuth ==
    /\ []((loggedIn /\ reloaded /\ isInitializing) =>
            /\ ~isAuthenticated
            /\ ProtectedRoute = "spinner")
    /\ []((loggedIn /\ reloaded /\ ~isInitializing) =>
            /\ isAuthenticated <=> lastCheck = "ok"
            /\ lastCheck = "ok" => (ProtectedRoute = "outlet" /\ user \in Users)
            /\ lastCheck # "ok" => (ProtectedRoute = "/login" /\ user = Null))
    /\ [][(loggedIn /\ ~isInitializing /\ isInitializing')
            => (user' = user /\ ~isAuthenticated')]_vars

\* logged in, reloaded, and the checkAuth of the reloaded page has succeeded:
\* the protected page is shown again
C18_Witness ==
    /\ loggedIn /\ reloaded
    /\ ~isInitializing
    /\ lastCheck = "ok"
    /\ isAuthenticated
    /\ ProtectedRoute = "outlet"
    /\ authRequest = "none"

\* ---- the chat page: switching, invalidation, sends in flight ----

\* C21: right after handleSelectSession(s) the buffer is empty and the current
\* session is a session of the list, the one selected; right after
\* handleNewChat the buffer is empty and no session is current.
C21_BufferClearedOnSwitch ==
    /\ [](lastEvent \in SessionIds =>
            /\ localMessages = <<>>
            /\ currentSessionId = lastEvent
            /\ switched)
    /\ [](lastEvent = "new" =>
            /\ localMessages = <<>>
            /\ currentSessionId = Null
            /\ switched)

\* a session was selected while a send was pending whose user message was in
\* the buffer
C21_Witness ==
    /\ lastEvent = "s1"
    /\ lastSend.outcome = "pending"
    /\ bufferBeforeSend # <<>>
    /\ localMessages = <<>>
    /\ currentSessionId = "s1"

\* C22: a send that succeeds invalidates the list of sessions and the session
\* the response names, a send that fails invalidates nothing, and an
\* invalidated list of sessions is refetched: the cache is then the server's
\* list, which the transcript merges with the buffer.
C22_SuccessInvalidatesAndRefetches ==
    /\ [][(lastSend.outcome = "pending" /\ lastSend'.outcome = "success")
            => /\ SessionsKey \in invalidated'
               /\ SessionKey(lastSend'.session_id) \in invalidated']_vars
    /\ [][(lastSend.outcome = "pending" /\ lastSend'.outcome = "failure")
            => invalidated' = invalidated]_vars
    /\ [][(SessionsKey \in invalidated /\ SessionsKey \notin invalidated')
            => (sessions' = serverSessions /\ refetched')]_vars
    /\ (SessionsKey \in invalidated) ~> (SessionsKey \notin invalidated)

\* after a successful send the list was refetched: the cache holds the
\* exchange and the transcript is the merge of it with the buffer
C22_Witness ==
    /\ lastSend.outcome = "success"
    /\ refetched /\ ~switched
    /\ SessionsKey \notin invalidated
    /\ SessionKey(lastSend.session_id) \in invalidated
    /\ currentSessionId = lastSend.session_id
    /\ sessions = serverSessions
    /\ Len(localMessages) = 2
    /\ displayMessages = deduplicateMessages(sessions[currentSessionId], localMessages)

\* C23: handleSend does nothing (buffer, request, input text and flags as
\* before) when the trimmed text is empty or a send is pending, and sends only
\* otherwise; so one request at most is in flight, and the buffer holds at most
\* one user message whose send is in flight, its latest.
C23_SingleSendInFlight ==
    /\ [][lastEvent' = "ignored"
            => /\ Trim(message) = EmptyString \/ isPending
               /\ UNCHANGED <<message, localMessages, request, isPending, isTyping,
                              currentSessionId, nextRef>>]_vars
    /\ [][lastEvent' = "sent"
            => /\ Trim(message) # EmptyString
               /\ ~isPending /\ request = NoRequest
               /\ isPending' /\ request'.stage = "sent"
               /\ localMessages' = Append(localMessages, request'.userMessage)]_vars
    /\ [](isPending <=> request # NoRequest)
    /\ [](isPending =>
            /\ Cardinality({i \in DOMAIN localMessages :
                              localMessages[i].ref = request.userMessage.ref}) <= 1
            /\ \A i \in DOMAIN localMessages :
                  localMessages[i].ref <= request.userMessage.ref + 1)

\* handleSend was called again while the second send of the page was pending:
\* nothing was added to the two messages of the first send and the one of the second
C23_Witness ==
    /\ lastEvent = "ignored"
    /\ isPending
    /\ request.stage = "sent"
    /\ Len(localMessages) = 3
    /\ localMessages[3].ref = request.userMessage.ref

\* C27 as stated: when the session was switched, or a new chat started, while
\* a send was pending, the buffer of the context now displayed holds neither
\* message of that send after its response has been handled.
C27_BufferOfDisplayedContextOnly ==
    (lastSend.outcome = "success" /\ switched)
        => \A i \in DOMAIN localMessages :
              /\ localMessages[i].ref # lastSend.userMessage.ref
              /\ localMessages[i].ref # lastSend.userMessage.ref + 1

\* C28 as stated: when the response of a send is handled while a session is
\* selected, that session stays the current one.
C28_ResponseKeepsSessionChoice ==
    [][(lastSend.outcome = "pending" /\ lastSend'.outcome = "success"
            /\ currentSessionId # Null)
        => currentSessionId' = currentSessionId]_vars

\* Every message of the two inputs of a merge.
MergeInputs ==
    {inHistory[i] : i \in DOMAIN inHistory} \cup {inOptimistic[i] : i \in DOMAIN inOptimistic}

\* C29 as stated: two messages have the same signature string exactly when
\* their identity tuples (role, content, timestamp or empty) are equal.
C29_SignatureInjective ==
    \A m1, m2 \in MergeInputs :
        Signature(m1) = Signature(m2) <=> IdentityTuple(m1) = IdentityTuple(m2)

\* the expiry timer recorded for the character is pending
HasLiveExpiryTimer(characterId) ==
    /\ characterId \in DOMAIN scoreChangeTimeouts
    /\ \E t \in timers : /\ t.id = scoreChangeTimeouts[characterId]
                         /\ t.characterId = characterId

\* C24: in every reachable state a record with a nonzero lastScoreChange has a
\* pending expiry timer recorded for its id in scoreChangeTimeouts, and hence
\* every nonzero lastScoreChange is eventually brought back to 0.
C24_IndicatorHasLiveTimer ==
    /\ [](\A id \in CharacterIds : ScoreChangeOf(characters, id) # 0 => HasLiveExpiryTimer(id))
    /\ \A id \in CharacterIds :
           (ScoreChangeOf(characters, id) # 0) ~> (ScoreChangeOf(characters, id) = 0)

C24_Witness ==
    /\ lastCall.op = "update"
    /\ lastCall.superseding
    /\ elapsed = 2
    /\ ScoreChangeOf(characters, watched) # 0
    /\ HasLiveExpiryTimer(watched)
    /\ \E other \in CharacterIds \ {watched} : ScoreChangeOf(characters, other) # 0

\* C25: the handles stored in scoreChangeTimeouts are exactly the pending
\* timers: every stored handle is the id of a pending timer of that character,
\* whose record exists, and every pending timer is the one stored for its
\* character.
C25_HandlesAreTheLiveTimers ==
    /\ \A id \in DOMAIN scoreChangeTimeouts :
           /\ HasLiveExpiryTimer(id)
           /\ id \in DOMAIN characters
    /\ \A t \in timers :
           /\ t.characterId \in DOMAIN scoreChangeTimeouts
           /\ scoreChangeTimeouts[t.characterId] = t.id

\* both characters have a handle, one of them from an update that replaced a
\* pending timer, and time has passed since
C25_Witness ==
    /\ DOMAIN scoreChangeTimeouts = CharacterIds
    /\ Cardinality(timers) = 2
    /\ lastCall.op = "update"
    /\ lastCall.superseding
    /\ scoreChangeTimeouts[watched] = lastCall.timeoutId
    /\ elapsed = 1

\* the handle stored for the character, 0 standing for none
HandleOf(characterId) ==
    IF characterId \in DOMAIN scoreChangeTimeouts THEN scoreChangeTimeouts[characterId] ELSE 0

\* C26: a call of updateFromResponse, initFromCharacter, clearScoreChange or
\* resetCharacter for another character, and the firing of another
\* character's timer, leave the record, the stored handle and the pending
\* timer of the watched character unchanged; the only other step that is not
\* a call for the watched character or the firing of its timer is the
\* passing of a second, which moves every pending timer one second on and
\* changes neither records nor handles.
C26_PerCharacterIsolation ==
    [][(callParity' = callParity /\ lastFired' = lastFired)
        => /\ getCharacterRelationship(watched)' = getCharacterRelationship(watched)
           /\ HandleOf(watched)' = HandleOf(watched)
           /\ \/ LiveTimersOf(watched)' = LiveTimersOf(watched)
              \/ /\ timers' = {[t EXCEPT !.remaining = @ - 1] : t \in timers}
                 /\ characters' = characters
                 /\ scoreChangeTimeouts' = scoreChangeTimeouts]_vars

\* the other character was updated a second after the watched one, whose
\* record, handle and timer are still there
C26_Witness ==
    /\ lastCall.op = "update"
    /\ elapsed = 1
    /\ ScoreChangeOf(characters, watched) # 0
    /\ HandleOf(watched) = lastCall.timeoutId
    /\ \E t \in LiveTimersOf(watched) : t.id = lastCall.timeoutId /\ t.remaining = ExpiryWindow - 1
    /\ \E other \in CharacterIds \ {watched} :
           /\ ScoreChangeOf(characters, other) # 0
           /\ HandleOf(other) > HandleOf(watched)
           /\ \E t \in LiveTimersOf(other) : t.remaining = ExpiryWindow

\* C30 as stated: given the same calls at the same times, the store without
\* timeout tracking and the store with it hold the same characters map at
\* every moment; the moments compared are those at which no timer of either
\* store is due, so that callbacks due at the same time have all run.
C30_VariantsShowSameCharacters ==
    (sideBySide /\ \A t \in timers \cup timersNoTracking : t.remaining > 0)
        => charactersNoTracking = characters

====
